---- MODULE Spec2Model ----
(***************************************************************************)
(* Model of the swipe / undo / reset session logic of the React component  *)
(* App (src/src/App.tsx).  Every event handler, the 200 ms timer callback  *)
(* scheduled by swipe and the completion of fetchCats is one atomic step:  *)
(* JavaScript runs them one at a time, and React re-renders between two    *)
(* events, so a handler always reads the state left by the previous event. *)
(***************************************************************************)
EXTENDS Integers, Sequences, FiniteSets, TLC

\* ---------------------------------------------------------------- bounds
\* number of swipe / undo / reset calls explored in one run
MaxOps == 5
\* number of timer callbacks that may be waiting at the same time
MaxPending == 2
\* longest response body in the specification of the normalisation
MaxBatch == 2

\* ------------------------------------------------------- provider records
\* JavaScript's undefined, and useState's null for exitDirection
UNDEF == "undefined"
NULL == "null"

\* a tags field that is an array / that is absent / that is a plain string
ArrayTags(items) == [kind |-> "array", items |-> items]
NoTags == [kind |-> "undefined", items |-> <<>>]
StringTags(s) == [kind |-> "string", items |-> <<s>>]

\* records as the provider may return them (type.ts: _id and id optional)
RawA == [_id |-> "A", id |-> UNDEF, tags |-> ArrayTags(<<"cute", "orange">>)]
RawB == [_id |-> UNDEF, id |-> "B", tags |-> NoTags]
RawC == [_id |-> "", id |-> "C", tags |-> StringTags("grumpy")]
RawD == [_id |-> "D", id |-> "d2", tags |-> ArrayTags(<<>>)]

\* the responses of GET /api/cats explored by the model
BatchABC == <<RawA, RawB, RawC>>
BatchDA == <<RawD, RawA>>
BatchEmpty == <<>>
RawBatches == {BatchABC, BatchDA, BatchEmpty}

\* variant: cat._id ?? cat.id, only undefined falls through
NullishOrElse(a, b) == IF a # UNDEF THEN a ELSE b

\* cat._id || cat.id : the left operand unless it is falsy
Truthy(v) == v \notin {UNDEF, ""}
OrElse(a, b) == IF Truthy(a) THEN a ELSE b

\* Array.isArray(cat.tags) ? cat.tags : []
IsArray(t) == t.kind = "array"
NormTags(t) == IF IsArray(t) THEN t.items ELSE <<>>

\* one element of validCats: { ...cat, _id: cat._id || cat.id, tags: ... }
NormalizeCat(cat) ==
  [_id |-> OrElse(cat._id, cat.id), id |-> cat.id, tags |-> NormTags(cat.tags)]

\* validCats = data.map(...)
validCats(body) == [i \in DOMAIN body |-> NormalizeCat(body[i])]

\* ------------------------------------------------------------------ state
VARIABLES
  cats,          \* useState<Cat[]>([])
  likedCats,     \* useState<Cat[]>([])
  currentIndex,  \* useState(0)
  loading,       \* useState(true)
  exitDirection, \* useState<"left" | "right" | null>(null)
  viewMode,      \* useState<"swipe" | "summary">("swipe")
  history,       \* useState<{cat, action}[]>([])
  timers,        \* callbacks scheduled by setTimeout(..., 200), oldest first
  inFlight,      \* calls of fetchCats that have not yet resolved or rejected
  mounted,       \* the mount effect has run
  fetchStatus,   \* how the latest call of fetchCats stands
  data,          \* const data = await response.json(), the latest body
  ops            \* log of the swipe / undo / reset calls made so far

vars == <<cats, likedCats, currentIndex, loading, exitDirection, viewMode,
          history, timers, inFlight, mounted, fetchStatus, data, ops>>

\* the session triple of the specification
triple == <<currentIndex, likedCats, history>>

Init ==
  /\ cats = <<>>
  /\ likedCats = <<>>
  /\ currentIndex = 0
  /\ loading = TRUE
  /\ exitDirection = NULL
  /\ viewMode = "swipe"
  /\ history = <<>>
  /\ timers = <<>>
  /\ inFlight = 0
  /\ mounted = FALSE
  /\ fetchStatus = "idle"
  /\ data = <<>>
  /\ ops = <<>>

\* ------------------------------------------------------------ what is shown
\* variant: the condition lacks cats.length > 0
SummaryScreenAnyLength == currentIndex >= Len(cats) /\ ~loading

\* the summary screen replaces the whole main screen
SummaryScreen == currentIndex >= Len(cats) /\ ~loading /\ Len(cats) > 0

\* the draggable card : main screen, not loading, swipe view, a card left
CardShown ==
  ~SummaryScreen /\ ~loading /\ viewMode = "swipe" /\ Len(cats) > currentIndex

\* variant: the buttons are rendered without currentIndex < cats.length
ButtonsShownPastEnd == ~SummaryScreen /\ ~loading /\ viewMode = "swipe"

\* the Dislike / Like / Undo buttons
ButtonsShown ==
  ~SummaryScreen /\ ~loading /\ viewMode = "swipe" /\ currentIndex < Len(cats)

\* what App returns: the summary screen, or the main screen with the
\* loading indicator, the card stack or the gallery
Screen ==
  IF SummaryScreen THEN "summary"
  ELSE IF loading THEN "loading"
  ELSE IF viewMode = "swipe" THEN "cards"
  ELSE "gallery"

\* ------------------------------------------------------------------ helpers
\* cats[currentIndex], undefined past the end of the array
UndefinedCat == [_id |-> UNDEF, id |-> UNDEF, tags |-> <<>>]
CatAt(cs, i) == IF i + 1 \in DOMAIN cs THEN cs[i + 1] ELSE UndefinedCat

\* direction === "right" ? "like" : "dislike"
ActionOf(direction) == IF direction = "right" THEN "like" ELSE "dislike"

\* setHistory((prev) => [...prev, { cat, action }])
HistoryAfterSwipe(prev, cat, direction) ==
  Append(prev, [cat |-> cat, action |-> ActionOf(direction)])

\* if (direction === "right") setLikedCats((prev) => [...prev, cat])
LikedAfterTimer(prev, cat, direction) ==
  IF direction = "right" THEN Append(prev, cat) ELSE prev

\* variant: the update adds 2
IndexAfterTimerTwice(prev) == prev + 2

\* setCurrentIndex((prev) => prev + 1)
IndexAfterTimer(prev) == prev + 1

\* variant: the comparisons are < instead of ===
UndoNeverReturnsEarly(h, i) == Len(h) < 0 \/ i < 0

\* if (history.length === 0 || currentIndex === 0) return
UndoReturnsEarly(h, i) == Len(h) = 0 \/ i = 0

\* history[history.length - 1]
LastEntry(h) ==
  IF Len(h) > 0 THEN h[Len(h)] ELSE [cat |-> UndefinedCat, action |-> UNDEF]

\* prev.filter((c) => c._id !== last.cat._id)
FilterOut(prev, id) == SelectSeq(prev, LAMBDA c : c._id # id)

\* the liked list after undoLast
LikedAfterUndo(prev, last) ==
  IF last.action = "like" THEN FilterOut(prev, last.cat._id) ELSE prev

\* variant: prev.slice(1), the first entry is dropped
DropFirst(prev) == SubSeq(prev, 2, Len(prev))

\* prev.slice(0, -1)
DropLast(prev) == SubSeq(prev, 1, Len(prev) - 1)

\* the record a call leaves in the log
OpEntry(op, direction, id) == [op |-> op, direction |-> direction, cat |-> id]

\* ---------------------------------------------------------------- actions
\* variant: useEffect without the [] argument, the effect runs again
MountEveryRender ==
  /\ mounted' = TRUE
  /\ loading' = TRUE
  /\ inFlight' = inFlight + 1
  /\ fetchStatus' = "pending"
  /\ UNCHANGED <<data, cats, likedCats, currentIndex, exitDirection, viewMode,
                 history, timers, ops>>

\* useEffect(() => { fetchCats(); }, []) : setLoading(true), request sent
Mount ==
  /\ ~mounted
  /\ mounted' = TRUE
  /\ loading' = TRUE
  /\ inFlight' = inFlight + 1
  /\ fetchStatus' = "pending"
  /\ UNCHANGED <<data, cats, likedCats, currentIndex, exitDirection, viewMode,
                 history, timers, ops>>

\* fetchCats, try branch completed: setCats(validCats); finally setLoading(false)
FetchResolve(body) ==
  /\ inFlight > 0
  /\ data' = body
  /\ cats' = validCats(body)
  /\ loading' = FALSE
  /\ inFlight' = inFlight - 1
  /\ fetchStatus' = "resolved"
  /\ UNCHANGED <<likedCats, currentIndex, exitDirection, viewMode, history,
                 timers, mounted, ops>>

\* variant: setLoading(false) sits in the try block, not in finally
FetchRejectKeepsLoading ==
  /\ inFlight > 0
  /\ inFlight' = inFlight - 1
  /\ fetchStatus' = "rejected"
  /\ UNCHANGED <<data, cats, likedCats, currentIndex, loading, exitDirection,
                 viewMode, history, timers, mounted, ops>>

\* variant: the catch block calls setCats([])
FetchRejectClears ==
  /\ inFlight > 0
  /\ cats' = <<>>
  /\ loading' = FALSE
  /\ inFlight' = inFlight - 1
  /\ fetchStatus' = "rejected"
  /\ UNCHANGED <<data, likedCats, currentIndex, exitDirection, viewMode, history,
                 timers, mounted, ops>>

\* fetchCats, catch branch: console.error; finally setLoading(false)
FetchReject ==
  /\ inFlight > 0
  /\ loading' = FALSE
  /\ inFlight' = inFlight - 1
  /\ fetchStatus' = "rejected"
  /\ UNCHANGED <<data, cats, likedCats, currentIndex, exitDirection, viewMode,
                 history, timers, mounted, ops>>

\* swipe(direction), lines 68-88, up to and including the setTimeout call
swipe(direction) ==
  /\ Len(ops) < MaxOps
  /\ Len(timers) < MaxPending
  /\ exitDirection' = direction
  /\ history' = HistoryAfterSwipe(history, CatAt(cats, currentIndex), direction)
  /\ timers' = Append(timers, [direction |-> direction,
                               cat |-> CatAt(cats, currentIndex)])
  /\ ops' = Append(ops, OpEntry("swipe", direction,
                                CatAt(cats, currentIndex)._id))
  /\ UNCHANGED <<data, cats, likedCats, currentIndex, loading, viewMode, inFlight,
                 mounted, fetchStatus>>

\* the Dislike and Like buttons
SwipeButton(direction) == ButtonsShown /\ swipe(direction)

\* const threshold = 100
threshold == 100

\* horizontal offsets at which a drag of the card may end
DragOffsets == {-101, -100, 0, 100, 101}

\* handleDragEnd(_, info), the onDragEnd handler of the card
handleDragEnd(offsetX) ==
  /\ CardShown
  /\ IF offsetX > threshold
       THEN swipe("right")
       ELSE IF offsetX < -threshold
              THEN swipe("left")
              ELSE UNCHANGED vars

\* the callback of setTimeout, lines 79-87
TimerFires ==
  /\ timers # <<>>
  /\ likedCats' = LikedAfterTimer(likedCats, Head(timers).cat,
                                 Head(timers).direction)
  /\ currentIndex' = IndexAfterTimer(currentIndex)
  /\ exitDirection' = NULL
  /\ timers' = Tail(timers)
  /\ UNCHANGED <<data, cats, loading, viewMode, history, inFlight, mounted,
                 fetchStatus, ops>>

\* resetApp, the Start Over button of the summary screen
resetApp ==
  /\ SummaryScreen
  /\ Len(ops) < MaxOps
  /\ likedCats' = <<>>
  /\ currentIndex' = 0
  /\ loading' = TRUE
  /\ inFlight' = inFlight + 1
  /\ fetchStatus' = "pending"
  /\ ops' = Append(ops, OpEntry("reset", NULL, NULL))
  /\ UNCHANGED <<data, cats, exitDirection, viewMode, history, timers, mounted>>

\* undoLast, the Undo button
undoLast ==
  /\ ButtonsShown
  /\ Len(ops) < MaxOps
  /\ ops' = Append(ops, OpEntry("undo", NULL, NULL))
  /\ IF UndoReturnsEarly(history, currentIndex)
       THEN UNCHANGED <<currentIndex, likedCats, history>>
       ELSE /\ currentIndex' = currentIndex - 1
            /\ IF Len(history) = 0
                 \* last is undefined: last.action throws after the first update
                 THEN UNCHANGED <<likedCats, history>>
                 ELSE /\ likedCats' = LikedAfterUndo(likedCats, LastEntry(history))
                      /\ history' = DropLast(history)
  /\ UNCHANGED <<data, cats, loading, exitDirection, viewMode, timers, inFlight,
                 mounted, fetchStatus>>

\* the View Gallery / Back to Swipe button of the main screen
ToggleView ==
  /\ mounted
  /\ ~SummaryScreen
  /\ viewMode' = IF viewMode = "swipe" THEN "summary" ELSE "swipe"
  /\ UNCHANGED <<data, cats, likedCats, currentIndex, loading, exitDirection,
                 history, timers, inFlight, mounted, fetchStatus, ops>>

\* ------------------------------------------------------- derived quantities
Max(a, b) == IF a >= b THEN a ELSE b

\* the counters of the main screen
likedCount == Len(likedCats)
dislikedCount == Max(0, currentIndex - Len(likedCats))

\* identifiers of cats.slice(0, currentIndex)
RatedIds == {cats[j]._id : j \in {k \in DOMAIN cats : k <= currentIndex}}

\* the last call in the log
LastOp == IF Len(ops) > 0 THEN ops[Len(ops)] ELSE OpEntry(NULL, NULL, NULL)

\* every call made so far was a swipe
OnlySwipes == \A k \in DOMAIN ops : ops[k].op = "swipe"

\* a step that is a call of swipe / the run of a timer callback
IsSwipeCall == Len(ops') = Len(ops) + 1 /\ ops'[Len(ops')].op = "swipe"
IsTimerRun == ops' = ops /\ Len(timers') = Len(timers) - 1

\* the cats of the like entries of a history, in order
RECURSIVE LikesOf(_)
LikesOf(h) ==
  IF h = <<>> THEN <<>>
  ELSE IF h[Len(h)].action = "like"
         THEN Append(LikesOf(SubSeq(h, 1, Len(h) - 1)), h[Len(h)].cat)
         ELSE LikesOf(SubSeq(h, 1, Len(h) - 1))

\* ------------------------------------------------------------------ claims
\* C1: in every reachable state 0 <= cursor <= len(candidates).
CursorInRange == 0 <= currentIndex /\ currentIndex <= Len(cats)

\* C2: once a candidate list has been loaded, len(history) == cursor.
HistoryLenIsCursor == Len(cats) > 0 => Len(history) = currentIndex

\* C3: reset() yields cursor == 0, liked empty and history empty, and starts
\* a fresh fetch.
ResetClearsSession ==
  [][resetApp => /\ currentIndex' = 0
                 /\ likedCats' = <<>>
                 /\ history' = <<>>
                 /\ loading'
                 /\ inFlight' = inFlight + 1]_vars

\* C4: likedCount + dislikedCount == cursor in every reachable state, that is
\* len(liked) never exceeds cursor.
CountsAddUp ==
  likedCount + dislikedCount = currentIndex /\ Len(likedCats) <= currentIndex

\* C5: every liked candidate is one of candidates[0:cursor].
LikedSubsetOfRated == \A k \in DOMAIN likedCats : likedCats[k]._id \in RatedIds

\* C6: with a non-empty history undo() pops the last entry, removes its
\* candidate from liked if it was a like and decrements cursor by 1; history
\* is non-empty exactly when cursor > 0.
UndoPopsLast ==
  [][undoLast =>
       /\ (history # <<>> <=> currentIndex > 0)
       /\ (history # <<>> =>
             /\ history' = SubSeq(history, 1, Len(history) - 1)
             /\ currentIndex' = currentIndex - 1
             /\ likedCats' =
                  IF history[Len(history)].action = "like"
                    THEN SelectSeq(likedCats,
                           LAMBDA c : c._id # history[Len(history)].cat._id)
                    ELSE likedCats)]_vars

\* C7: undo() with an empty history changes none of cursor, liked, history,
\* candidates and loading.
UndoEmptyIsNoOp ==
  [][(undoLast /\ history = <<>>) =>
       UNCHANGED <<currentIndex, likedCats, history, cats, loading>>]_vars

\* C7 witness: the first call of the session was an undo (the history was empty)
UndoOnEmptyHappened == Len(ops) = 1 /\ ops[1].op = "undo" /\ history = <<>>

\* C8: in a state reached by swipe(d), undo() followed by swipe(d) (with its
\* deferred update) gives back the same (cursor, liked, history).
UndoThenSwipe(d) ==
  LET early == UndoReturnsEarly(history, currentIndex)
      i1 == IF early THEN currentIndex ELSE currentIndex - 1
      l1 == IF early THEN likedCats
                     ELSE LikedAfterUndo(likedCats, LastEntry(history))
      h1 == IF early THEN history ELSE DropLast(history)
      cat == CatAt(cats, i1)
  IN <<IndexAfterTimer(i1), LikedAfterTimer(l1, cat, d),
       HistoryAfterSwipe(h1, cat, d)>>

RoundTrip ==
  (LastOp.op = "swipe" /\ timers = <<>> /\ ButtonsShown)
     => UndoThenSwipe(LastOp.direction) = triple

ScenarioOps ==
  <<OpEntry("swipe", "right", "A"), OpEntry("swipe", "left", "B"),
    OpEntry("undo", NULL, NULL), OpEntry("swipe", "right", "B")>>

ScenarioRan == cats = validCats(BatchABC) /\ ops = ScenarioOps /\ timers = <<>>

ScenarioABC ==
  ScenarioRan =>
    /\ {likedCats[k]._id : k \in DOMAIN likedCats} = {"A", "B"}
    /\ Len(likedCats) = 2
    /\ currentIndex = 2
    /\ [k \in DOMAIN history |-> <<history[k].cat._id, history[k].action>>]
         = << <<"A", "like">>, <<"B", "like">> >>


\* a reset was called at some point
ResetCalled == \E k \in DOMAIN ops : ops[k].op = "reset"

\* a step in which a call of fetchCats ends by rejection / by resolution
IsFetchFailure == fetchStatus = "pending" /\ fetchStatus' = "rejected"
IsFetchSuccess == fetchStatus = "pending" /\ fetchStatus' = "resolved"

NoSummaryOfEmptyList ==
  /\ (Len(cats) = 0 => Screen # "summary")
  /\ (Screen = "summary" =>
        (Len(cats) > 0 /\ currentIndex >= Len(cats) /\ ~loading))

\* C12 witness: a fetch has ended and the candidate list is empty
EmptyListLoaded ==
  cats = <<>> /\ ~loading /\ fetchStatus \in {"resolved", "rejected"}

\* C13: at most one fetch is in flight; a fetch is started (by the initial
\* load or by reset) only when no earlier fetch is still unfinished.
OneFetchAtATime ==
  /\ [](inFlight <= 1)
  /\ [][inFlight' > inFlight => inFlight = 0]_vars

\* C13 witness: the fetch started by reset is in flight
ResetFetchInFlight == LastOp.op = "reset" /\ inFlight = 1 /\ loading

\* a step that is a call of undoLast / a press of the view toggle
IsUndoCall == Len(ops') = Len(ops) + 1 /\ ops'[Len(ops')].op = "undo"
IsToggle == viewMode' # viewMode

\* C14: only a successful fetch completion changes the candidate list; swipe,
\* undo, the deferred swipe update, the view toggle and a failed fetch leave
\* it unchanged.
OnlyFetchSetsCats ==
  /\ [][cats' # cats => IsFetchSuccess]_vars
  /\ [][(IsSwipeCall \/ IsUndoCall \/ IsTimerRun \/ IsToggle \/ IsFetchFailure)
          => cats' = cats]_vars

\* C14 witness: the list is still there after a swipe, its update, an undo,
\* a toggle and a failed fetch
CatsKeptThroughEvents ==
  /\ cats = validCats(BatchDA)
  /\ fetchStatus = "rejected"
  /\ LastOp.op = "undo"
  /\ \E k \in DOMAIN ops : ops[k].op = "swipe"
  /\ timers = <<>>
  /\ viewMode = "summary"

\* ------------------------------------------- normalisation of a response
\* every shape of record: each id field absent, empty or set, the tags
\* absent, a string, or an array
RawRecords ==
  {[_id |-> p, id |-> q, tags |-> t] :
     p \in {UNDEF, "", "A"}, q \in {UNDEF, "", "B"},
     t \in {NoTags, StringTags("cute"), ArrayTags(<<>>),
            ArrayTags(<<"cute", "shy">>)}}

\* the response bodies of at most MaxBatch records
AllBodies == UNION {[1..n -> RawRecords] : n \in 0..MaxBatch}

\* a mounted component whose first fetch is about to deliver some body
NormInit ==
  /\ data \in AllBodies
  /\ cats = <<>>
  /\ likedCats = <<>>
  /\ currentIndex = 0
  /\ loading = TRUE
  /\ exitDirection = NULL
  /\ viewMode = "swipe"
  /\ history = <<>>
  /\ timers = <<>>
  /\ inFlight = 1
  /\ mounted = TRUE
  /\ fetchStatus = "pending"
  /\ ops = <<>>

NormNext == FetchResolve(data)

NormSpec == NormInit /\ [][NormNext]_vars

\* C15: each normalized candidate has the primary id when it is truthy and
\* the secondary id otherwise, the record's tags when they are an array and
\* the empty sequence otherwise; order and number of records are preserved.
NormalizedAsSpecified ==
  fetchStatus = "resolved" =>
    /\ Len(cats) = Len(data)
    /\ \A i \in DOMAIN data :
         /\ cats[i]._id = (IF data[i]._id \in {UNDEF, ""}
                             THEN data[i].id ELSE data[i]._id)
         /\ cats[i].tags = (IF data[i].tags.kind = "array"
                              THEN data[i].tags.items ELSE <<>>)

\* C15 witness: a body whose first record has an empty primary id and whose
\* second has string tags was normalized
FallbacksNormalized ==
  /\ fetchStatus = "resolved"
  /\ Len(data) = 2
  /\ data[1]._id = "" /\ data[1].id = "B"
  /\ data[2]._id = "A" /\ data[2].tags.kind = "string"
  /\ Len(cats) = 2

\* C16: swipe is called only while loading is false, the view mode is swipe
\* and cursor < len(candidates), so no history entry has an undefined
\* candidate.
SwipeOnlyOnACard ==
  /\ [][IsSwipeCall =>
          (~loading /\ viewMode = "swipe" /\ currentIndex < Len(cats))]_vars
  /\ [](\A k \in DOMAIN history :
          history[k].cat # UndefinedCat /\ history[k].cat._id # UNDEF)

\* C16 witness: the last card of the list was swiped
LastCardSwiped ==
  /\ LastOp.op = "swipe"
  /\ Len(cats) > 0
  /\ history # <<>>
  /\ history[Len(history)].cat = cats[Len(cats)]

\* C17 as stated: loading is true exactly while a fetch is in flight.
LoadingIffInFlight == loading <=> inFlight > 0

\* C17 amended: once the mount effect has started the initial fetch, loading
\* is true exactly while a fetch is in flight; starting a fetch sets loading
\* to true, and every fetch, resolved or rejected, eventually sets it to false.
\* (Before the effect runs loading is already true and nothing is in flight.)
LoadingTracksFetch ==
  /\ [](mounted => (loading <=> inFlight > 0))
  /\ [][inFlight' > inFlight => loading']_vars
  /\ [][(IsFetchSuccess \/ IsFetchFailure) => ~loading']_vars
  /\ (inFlight > 0 ~> ~loading)

\* C17 witness: the fetch started by reset has resolved and loading is off
ResetFetchResolved ==
  mounted /\ ResetCalled /\ fetchStatus = "resolved" /\ ~loading /\ inFlight = 0

\* C18: between a swipe call and its deferred update no swipe, undo or reset
\* is processed, so every update applies to the state its swipe was issued in.
NoCallWhileUpdatePending ==
  [][timers # <<>> => ops' = ops]_vars

\* C19: whenever no deferred update is pending, liked is exactly the sequence
\* of the candidates whose history entries are likes.
LikedMatchesHistory == timers = <<>> => likedCats = LikesOf(history)

\* the identifiers of a list are pairwise distinct
DistinctIds(cs) ==
  \A i, j \in DOMAIN cs : cs[i]._id = cs[j]._id => i = j

\* C20: with pairwise distinct identifiers in the batch, liked never holds the
\* same identifier twice, so likedCount is the number of distinct liked cats.
LikedHasNoDuplicates ==
  DistinctIds(cats) =>
    /\ DistinctIds(likedCats)
    /\ likedCount = Cardinality({likedCats[k]._id : k \in DOMAIN likedCats})

\* ------------------------------------------------------------ specification
Next ==
  \/ Mount
  \/ \E body \in RawBatches : FetchResolve(body)
  \/ FetchReject
  \/ \E direction \in {"left", "right"} : SwipeButton(direction)
  \/ \E offsetX \in DragOffsets : handleDragEnd(offsetX)
  \/ TimerFires
  \/ resetApp
  \/ undoLast
  \/ ToggleView

Spec == Init /\ [][Next]_vars

\* a request sent by fetch(...) ends: the promise resolves or rejects
FetchSettles == (\E body \in RawBatches : FetchResolve(body)) \/ FetchReject

\* the same behaviours, with every pending fetch eventually settling
FairSpec == Spec /\ WF_vars(FetchSettles)

====
